---- MODULE Spec2Model ----
(***************************************************************************)
(* The Sapling extension framework (scripts/lib/sapling.js): the           *)
(* SaplingExtension protocol router and lifecycle, the Command builder and *)
(* its global registry, and the JsonDB document store.                     *)
(*                                                                         *)
(* JavaScript values are written as tokens: "undefined", "null", "true",   *)
(* "false", "0", "1", "NaN", "''" (the empty string), "'a'" and            *)
(* "[Function: Object]" (what a plain object inherits as constructor).     *)
(* Identifiers and registry keys are real strings, so startsWith, replace  *)
(* and string concatenation are computed on their characters.              *)
(***************************************************************************)
EXTENDS Integers, Sequences, FiniteSets, TLC

VARIABLES
    loaded,         \* e -> #loaded
    config,         \* e -> this.config
    protocols,      \* e -> #protocols: namespaced key -> handler
    gamerules,      \* e -> this.gamerules: name -> scope
    gamerulesData,  \* e -> #gamerulesData: name -> value
    commands,       \* e -> this.commands: name -> reference to a descriptor
    cmdData,        \* Command instance -> its this.data (the descriptor object)
    registry,       \* Command.commands: key -> reference to a descriptor
    players,        \* the players the host currently has
    tags,           \* player name -> the tags the player carries
    slot,           \* the host's dynamic property of the store name
    dbs,            \* the JsonDB instances constructed so far
    size,           \* JsonDB instance -> this.size
    refMap,         \* the set, remove and clear calls so far, applied to one map
    hist,           \* the events delivered so far (bounded record of the run)
    last            \* what the last operation did: calls, replies, throw, return

vars == <<loaded, config, protocols, gamerules, gamerulesData, commands,
          cmdData, registry, players, tags, slot, dbs, size, refMap, hist, last>>

extVars == <<loaded, config, protocols, gamerules, gamerulesData, commands>>
cmdVars == <<cmdData, registry>>
dbVars  == <<slot, dbs, size, refMap>>
hostVars == <<players, tags>>

-----------------------------------------------------------------------------
(* Bounds and input sets *)

MaxArgs == 1        \* declared arguments per command, payload array length
MaxHist == 2        \* events recorded in hist (SpecRules)
MaxSize == 3        \* JsonDB: set and remove keep this.size in -MaxSize..MaxSize

Exts == {"A", "B"}
extensionNamespace == [e \in Exts |-> IF e = "A" THEN "myextension" ELSE "my"]

PlayerNames == {"steve", "alex"}
Handlers == {"h1", "h2"}
NotAFunction == "notfn"
CmdObjs == {"c1", "c2"}
DBs == {"d1", "d2"}
DBKeys == {"k1", "k2", "constructor"}
DBValues == {"1", "0", "NaN", "undefined"}
Scopes == {"client", "server", "engine"}
Identifiers == {"test", "t"}
commandPrefix == "./"

\* Object.prototype: every plain object inherits these keys.
ObjectPrototypeKeys == {"constructor"}
InheritedValue == "[Function: Object]"
InheritedName == "Object"

-----------------------------------------------------------------------------
(* JavaScript helpers *)

StartsWith(s, p) == Len(s) >= Len(p) /\ SubSeq(s, 1, Len(p)) = p

\* s.replace(p, "") for an s that starts with p (the only use in the source).
StripPrefix(s, p) == SubSeq(s, Len(p) + 1, Len(s))

Falsy == {"undefined", "null", "false", "0", "NaN", "''"}
Truthy(v) == v \notin Falsy

\* obj[key] on a plain object: own property, else Object.prototype's.
GetProp(obj, key) ==
    IF key \in DOMAIN obj THEN obj[key]
    ELSE IF key \in ObjectPrototypeKeys THEN InheritedValue
    ELSE "undefined"

\* key in obj
HasProp(obj, key) == key \in DOMAIN obj \/ key \in ObjectPrototypeKeys

\* obj[key] = value
Put(obj, key, value) ==
    [k \in DOMAIN obj \cup {key} |-> IF k = key THEN value ELSE obj[k]]

\* delete obj[key]
Delete(obj, key) == [k \in DOMAIN obj \ {key} |-> obj[k]]

EmptyObject == [k \in {} |-> "undefined"]

\* for (const k in data) target[k] = data[k]
Merge(target, data) ==
    [k \in DOMAIN target \cup DOMAIN data |->
        IF k \in DOMAIN data THEN data[k] ELSE target[k]]

-----------------------------------------------------------------------------
(* Events and payloads *)

NoArgs == [kind |-> "undefined", items |-> <<>>]
ObjectArgs == [kind |-> "object", items |-> <<"hi">>]
ArrayArgs(items) == [kind |-> "array", items |-> items]

\* A message is JSON text. json = "invalid": not JSON (JSON.parse throws);
\* "null": the text null; "object": an object with the optional properties
\* senderName and args and the further properties of map.
TextMessage == [json |-> "invalid", senderName |-> "undefined", args |-> NoArgs,
                map |-> EmptyObject]
NullMessage == [json |-> "null", senderName |-> "undefined", args |-> NoArgs,
                map |-> EmptyObject]
CommandMessage(senderName, args) ==
    [json |-> "object", senderName |-> senderName, args |-> args,
     map |-> EmptyObject]
MapMessage(m) ==
    [json |-> "object", senderName |-> "undefined", args |-> NoArgs, map |-> m]

Event(id, message, sourceType) ==
    [id |-> id, message |-> message, sourceType |-> sourceType]

NoEvent == Event("", TextMessage, "none")

-----------------------------------------------------------------------------
(* What an operation did, kept in last until the next operation. *)

NoInput == [name |-> "", fn |-> "", map |-> EmptyObject]

Result(op, e) ==
    [op |-> op, ext |-> e, input |-> NoInput, event |-> NoEvent,
     threw |-> FALSE, cmdCalls |-> <<>>, protoCalls |-> <<>>,
     replies |-> <<>>, broadcasts |-> 0, announces |-> <<>>,
     ret |-> "undefined", visits |-> {}]

-----------------------------------------------------------------------------
(* Command: the builder and the global registry (Command.commands) *)

\* new Command(): the default data
NewCommandData ==
    [name |-> "", description |-> "", args |-> <<>>,
     extensionValidation |-> [checkAdmin |-> FALSE, requiredGamerules |-> {}],
     callback |-> "undefined"]

\* The name a reference found in a commands table carries: a descriptor's
\* current name, or the name of the function inherited from Object.prototype.
NameOf(ref) == IF ref = InheritedValue THEN InheritedName ELSE cmdData[ref].name

RegistryKey(name) == "#" \o name
PrefixKey(name) == commandPrefix \o name

SetName(c, name) ==
    /\ cmdData' = [cmdData EXCEPT ![c].name = name]
    /\ last' = [Result("setName", "-") EXCEPT !.input.name = c]
    /\ UNCHANGED <<extVars, registry, hostVars, dbVars, hist>>

SetCallback(c, callback) ==
    /\ cmdData' = [cmdData EXCEPT ![c].callback = callback]
    /\ last' = [Result("setCallback", "-") EXCEPT !.input.name = c]
    /\ UNCHANGED <<extVars, registry, hostVars, dbVars, hist>>

AddArgument(c, type, name) ==
    /\ Len(cmdData[c].args) < MaxArgs
    /\ cmdData' = [cmdData EXCEPT
                     ![c].args = Append(@, [type |-> type, name |-> name])]
    /\ last' = [Result("addArgument", "-") EXCEPT !.input.name = c]
    /\ UNCHANGED <<extVars, registry, hostVars, dbVars, hist>>

\* A build that publishes the "#" alias only.
BuildRegistryHashOnly(reg, c) == Put(reg, RegistryKey(cmdData[c].name), c)

\* A build that keeps the descriptor already registered under the name.
BuildRegistryKeepFirst(reg, c) ==
    IF RegistryKey(cmdData[c].name) \in DOMAIN reg
    THEN reg
    ELSE Put(Put(reg, PrefixKey(cmdData[c].name), c),
             RegistryKey(cmdData[c].name), c)

\* Both aliases are set to the same data object (a reference, not a copy).
BuildRegistry(reg, c) ==
    Put(Put(reg, PrefixKey(cmdData[c].name), c), RegistryKey(cmdData[c].name), c)

Build(c) ==
    /\ registry' = BuildRegistry(registry, c)
    /\ last' = [Result("build", "-") EXCEPT !.input.name = c]
    /\ UNCHANGED <<extVars, cmdData, hostVars, dbVars, hist>>

-----------------------------------------------------------------------------
(* SaplingExtension: registration *)

ProtocolKey(e, identifier) == extensionNamespace[e] \o ":event_" \o identifier

\* A check that lets a duplicate identifier through.
SetProtocolThrowsNotFunction(e, identifier, callback) == callback = NotAFunction

SetProtocolThrows(e, identifier, callback) ==
    \/ HasProp(protocols[e], ProtocolKey(e, identifier))
    \/ callback = NotAFunction

SetProtocol(e, identifier, callback) ==
    /\ IF SetProtocolThrows(e, identifier, callback)
       THEN /\ last' = [Result("setProtocol", e) EXCEPT
                          !.threw = TRUE,
                          !.input = [name |-> identifier, fn |-> callback,
                                     map |-> EmptyObject]]
            /\ UNCHANGED protocols
       ELSE /\ protocols' = [protocols EXCEPT
                  ![e] = Put(@, ProtocolKey(e, identifier), callback)]
            /\ last' = [Result("setProtocol", e) EXCEPT
                          !.input = [name |-> identifier, fn |-> callback,
                                     map |-> EmptyObject]]
    /\ UNCHANGED <<loaded, config, gamerules, gamerulesData, commands,
                   cmdVars, hostVars, dbVars, hist>>

\* Only the entries whose value is one of the three scopes are taken.
ValidRules(rules) ==
    [k \in {x \in DOMAIN rules : rules[x] \in Scopes} |-> rules[k]]

SetGameRules(e, rules) ==
    /\ gamerules' = [gamerules EXCEPT ![e] = Merge(@, ValidRules(rules))]
    /\ last' = [Result("setGameRules", e) EXCEPT !.input.map = rules]
    /\ UNCHANGED <<loaded, config, protocols, gamerulesData, commands,
                   cmdVars, hostVars, dbVars, hist>>

\* A setCommand that refuses to work before load().
SetCommandWhenLoaded(e, c) ==
    /\ IF loaded[e]
       THEN /\ commands' = [commands EXCEPT ![e] = Put(@, cmdData[c].name, c)]
            /\ last' = [Result("setCommand", e) EXCEPT !.input.name = c]
       ELSE /\ last' = [Result("setCommand", e) EXCEPT
                          !.input.name = c, !.threw = TRUE]
            /\ UNCHANGED commands
    /\ UNCHANGED <<loaded, config, protocols, gamerules, gamerulesData,
                   cmdVars, hostVars, dbVars, hist>>

SetCommand(e, c) ==
    /\ commands' = [commands EXCEPT ![e] = Put(@, cmdData[c].name, c)]
    /\ last' = [Result("setCommand", e) EXCEPT !.input.name = c]
    /\ UNCHANGED <<loaded, config, protocols, gamerules, gamerulesData,
                   cmdVars, hostVars, dbVars, hist>>

-----------------------------------------------------------------------------
(* SaplingExtension: lifecycle *)

NoConfig == [isConfigBuilder |-> FALSE, debugMode |-> FALSE]   \* this.config = {}
ConfigBuilder(debugMode) == [isConfigBuilder |-> TRUE, debugMode |-> debugMode]
PlainObject(debugMode) == [isConfigBuilder |-> FALSE, debugMode |-> debugMode]

\* JSON.stringify of a descriptor: the callback, a function, is left out.
StringifyDescriptor(d) ==
    [name |-> d.name, description |-> d.description, args |-> d.args,
     extensionValidation |-> d.extensionValidation]

\* JSON.stringify(this): the public fields; #loaded, #protocols and
\* #gamerulesData are private and are not serialized.
Describe(e, cfg) ==
    [extensionId |-> e,
     extensionNamespace |-> extensionNamespace[e],
     commands |-> [n \in DOMAIN commands[e] |->
                     StringifyDescriptor(cmdData[commands[e][n]])],
     gamerules |-> gamerules[e],
     config |-> cfg]

ConfigClass(cfg) == IF cfg.isConfigBuilder THEN "ConfigBuilder" ELSE "Object"

\* A load that forgets the already-loaded check.
LoadThrowsConfigOnly(e, cfg) == ~cfg.isConfigBuilder

LoadThrows(e, cfg) == loaded[e] \/ ~cfg.isConfigBuilder

\* A load that sets the flag and the config and announces nothing.
LoadSilent(e, cfg) ==
    /\ IF LoadThrows(e, cfg)
       THEN /\ last' = [Result("load", e) EXCEPT
                          !.threw = TRUE, !.input.fn = ConfigClass(cfg)]
            /\ UNCHANGED <<loaded, config>>
       ELSE /\ loaded' = [loaded EXCEPT ![e] = TRUE]
            /\ config' = [config EXCEPT ![e] = cfg]
            /\ last' = [Result("load", e) EXCEPT
                          !.input.fn = ConfigClass(cfg),
                          !.broadcasts = IF cfg.debugMode THEN 1 ELSE 0]
    /\ UNCHANGED <<protocols, gamerules, gamerulesData, commands,
                   cmdVars, hostVars, dbVars, hist>>

Load(e, cfg) ==
    /\ IF LoadThrows(e, cfg)
       THEN /\ last' = [Result("load", e) EXCEPT
                          !.threw = TRUE, !.input.fn = ConfigClass(cfg)]
            /\ UNCHANGED <<loaded, config>>
       ELSE /\ loaded' = [loaded EXCEPT ![e] = TRUE]
            /\ config' = [config EXCEPT ![e] = cfg]
            /\ last' = [Result("load", e) EXCEPT
                          !.input.fn = ConfigClass(cfg),
                          !.broadcasts = IF cfg.debugMode THEN 1 ELSE 0,
                          !.announces = <<Describe(e, cfg)>>]
    /\ UNCHANGED <<protocols, gamerules, gamerulesData, commands,
                   cmdVars, hostVars, dbVars, hist>>

UpdateThrows(e) == ~loaded[e]

Update(e) ==
    /\ IF UpdateThrows(e)
       THEN last' = [Result("update", e) EXCEPT !.threw = TRUE]
       ELSE last' = [Result("update", e) EXCEPT
                       !.broadcasts = IF config[e].debugMode THEN 1 ELSE 0,
                       !.announces = <<Describe(e, config[e])>>]
    /\ UNCHANGED <<extVars, cmdVars, hostVars, dbVars, hist>>

\* getGamerule(gamerule, isClient, player): [threw, ret]
GetGameruleResult(e, gamerule, isClient, player) ==
    IF ~loaded[e] THEN [threw |-> TRUE, ret |-> "undefined"]
    ELSE IF ~HasProp(gamerules[e], gamerule)
    THEN [threw |-> TRUE, ret |-> "undefined"]
    ELSE IF isClient
    THEN IF player \notin PlayerNames
         THEN [threw |-> TRUE, ret |-> "undefined"]
         ELSE [threw |-> FALSE,
               ret |-> IF ("client:" \o gamerule) \in tags[player]
                       THEN "true" ELSE "false"]
    ELSE [threw |-> FALSE, ret |-> GetProp(gamerulesData[e], gamerule)]

GetGamerule(e, gamerule, isClient, player) ==
    /\ last' = [Result("getGamerule", e) EXCEPT
                  !.threw = GetGameruleResult(e, gamerule, isClient, player).threw,
                  !.ret = GetGameruleResult(e, gamerule, isClient, player).ret,
                  !.input = [name |-> gamerule,
                             fn |-> IF isClient THEN player ELSE "",
                             map |-> EmptyObject]]
    /\ UNCHANGED <<extVars, cmdVars, hostVars, dbVars, hist>>

-----------------------------------------------------------------------------
(* SaplingExtension: the two subscribers of scriptEventReceive *)

Quiet == [threw |-> FALSE, cmdCalls |-> <<>>, replies |-> <<>>]
Thrown == [threw |-> TRUE, cmdCalls |-> <<>>, replies |-> <<>>]

\* world.getPlayers({ name: senderName })[0]: the player of that name; with
\* no name the query does not filter, and the first of all players is any one
\* of them.
FirstPlayer(senderName) ==
    IF senderName = "undefined"
    THEN IF players = {} THEN {"undefined"} ELSE players
    ELSE IF senderName \in players THEN {senderName} ELSE {"undefined"}

\* A length check that only catches too few arguments.
SyntaxErrorTooFew(args, commandData) ==
    args.kind = "array" /\ Len(args.items) < Len(cmdData[commandData].args)

\* Array.isArray(args) && args.length !== commandData.args.length
SyntaxError(args, commandData) ==
    args.kind = "array" /\ Len(args.items) # Len(cmdData[commandData].args)

\* #handleCommand(cmd, message), sender being what the player query gave.
HandleCommand(e, cmd, message, sender) ==
    LET command == GetProp(commands[e], cmd) IN
    IF ~Truthy(command) THEN Quiet
    ELSE IF message.json # "object" THEN Thrown     \* JSON.parse, destructuring
    ELSE IF sender = "undefined" THEN Quiet
    ELSE LET commandData == GetProp(registry, RegistryKey(NameOf(command))) IN
         IF commandData = "undefined"
         THEN Thrown                \* commandData.args or commandData.callback
         ELSE IF SyntaxError(message.args, commandData)
         THEN [threw |-> FALSE, cmdCalls |-> <<>>,
               replies |-> <<[to |-> sender, text |-> "Syntax error"]>>]
         ELSE IF cmdData[commandData].callback = "undefined"
         THEN Thrown                \* commandData.callback is not a function
         ELSE [threw |-> FALSE,
               cmdCalls |-> <<[via |-> e, fn |-> cmdData[commandData].callback,
                               sender |-> sender, args |-> message.args]>>,
               replies |-> <<>>]

\* A filter that forgets the sourceType.
ConsumedAnySource(e, ev) == StartsWith(ev.id, extensionNamespace[e])

\* The first line of #handleScriptEvent: which events it goes on with.
Consumed(e, ev) ==
    ev.sourceType = "Server" /\ StartsWith(ev.id, extensionNamespace[e])

\* A gamerules test that looks at the end of the identifier only.
IsGamerulesEventSuffix(e, ev) ==
    Len(ev.id) >= Len(":gamerules")
    /\ SubSeq(ev.id, Len(ev.id) - Len(":gamerules") + 1, Len(ev.id)) = ":gamerules"

IsCommandEvent(e, ev) == StartsWith(ev.id, extensionNamespace[e] \o ":command.")
IsGamerulesEvent(e, ev) == StartsWith(ev.id, extensionNamespace[e] \o ":gamerules")

\* A push that replaces the table instead of merging into it.
MergeGamerulesReplace(data, message) ==
    IF message.json = "invalid" THEN [threw |-> TRUE, data |-> data]
    ELSE IF message.json = "null" THEN [threw |-> FALSE, data |-> data]
    ELSE [threw |-> FALSE, data |-> message.map]

\* The gamerules branch: [threw, data], data being #gamerulesData afterwards.
MergeGamerules(data, message) ==
    IF message.json = "invalid" THEN [threw |-> TRUE, data |-> data]
    ELSE IF message.json = "null" THEN [threw |-> FALSE, data |-> data]
    ELSE [threw |-> FALSE, data |-> Merge(data, message.map)]

\* #handleScriptEvent(event): [threw, cmdCalls, replies, broadcasts, data]
HandleScriptEvent(e, ev, sender) ==
    IF ~Consumed(e, ev)
    THEN [threw |-> FALSE, cmdCalls |-> <<>>, replies |-> <<>>,
          broadcasts |-> 0, data |-> gamerulesData[e]]
    ELSE LET echo == IF config[e].debugMode THEN 1 ELSE 0 IN
         IF IsCommandEvent(e, ev)
         THEN LET r == HandleCommand(e,
                         StripPrefix(ev.id, extensionNamespace[e] \o ":command."),
                         ev.message, sender)
              IN [threw |-> r.threw, cmdCalls |-> r.cmdCalls,
                  replies |-> r.replies, broadcasts |-> echo,
                  data |-> gamerulesData[e]]
         ELSE IF IsGamerulesEvent(e, ev)
         THEN LET m == MergeGamerules(gamerulesData[e], ev.message)
              IN [threw |-> m.threw, cmdCalls |-> <<>>, replies |-> <<>>,
                  broadcasts |-> echo, data |-> m.data]
         ELSE [threw |-> FALSE, cmdCalls |-> <<>>, replies |-> <<>>,
               broadcasts |-> echo, data |-> gamerulesData[e]]

\* A match on a registered key being a prefix of the identifier.
ProtocolMatchesPrefix(e, ev) ==
    \E k \in DOMAIN protocols[e] : StartsWith(ev.id, k)

\* protocol in this.#protocols
ProtocolMatches(e, ev) == HasProp(protocols[e], ev.id)

\* #handleProtocol(event): [protoCalls, broadcasts]
HandleProtocol(e, ev) ==
    [protoCalls |-> IF ProtocolMatches(e, ev)
                    THEN <<[via |-> e, fn |-> GetProp(protocols[e], ev.id),
                            event |-> ev]>>
                    ELSE <<>>,
     broadcasts |-> IF config[e].debugMode THEN 1 ELSE 0]

\* The host calls the subscribers in subscription order: each extension's
\* #handleProtocol, then its #handleScriptEvent (constructor, lines 27-28);
\* extension A was constructed before B.
ExtOrder == <<"A", "B">>

Subscribers(ES) == SelectSeq(ExtOrder, LAMBDA e : e \in ES)

RECURSIVE Gather(_, _)
\* The concatenation of f[e] for the extensions of the sequence es.
Gather(es, f) == IF es = <<>> THEN <<>> ELSE f[Head(es)] \o Gather(Tail(es), f)

RECURSIVE Total(_, _)
Total(es, f) == IF es = <<>> THEN 0 ELSE f[Head(es)] + Total(Tail(es), f)

\* One event delivered to the subscribers of the extensions ES.  An exception
\* in one subscriber is reported by the host and does not keep the other
\* subscribers from being called.
Dispatch(ES, ev) ==
    \E sender \in FirstPlayer(ev.message.senderName) :
      LET p == [e \in ES |-> HandleProtocol(e, ev)]
          h == [e \in ES |-> HandleScriptEvent(e, ev, sender)]
          es == Subscribers(ES)
      IN /\ gamerulesData' = [e \in Exts |->
                IF e \in ES THEN h[e].data ELSE gamerulesData[e]]
         /\ last' = [Result("event", "-") EXCEPT
                !.event = ev,
                !.threw = \E e \in ES : h[e].threw,
                !.cmdCalls = Gather(es, [e \in ES |-> h[e].cmdCalls]),
                !.protoCalls = Gather(es, [e \in ES |-> p[e].protoCalls]),
                !.replies = Gather(es, [e \in ES |-> h[e].replies]),
                !.broadcasts = Total(es, [e \in ES |->
                                   p[e].broadcasts + h[e].broadcasts])]
         /\ UNCHANGED <<loaded, config, protocols, gamerules, commands,
                        cmdVars, hostVars, dbVars>>

Deliver(ES, ev) == Dispatch(ES, ev) /\ UNCHANGED hist

\* The same delivery, the event also written to hist (at most MaxHist events).
DeliverRecorded(ES, ev) ==
    /\ Len(hist) < MaxHist
    /\ Dispatch(ES, ev)
    /\ hist' = Append(hist, ev)

-----------------------------------------------------------------------------
(* The host: players come and go *)

Join(p) ==
    /\ p \notin players
    /\ players' = players \cup {p}
    /\ last' = Result("join", "-")
    /\ UNCHANGED <<extVars, cmdVars, tags, dbVars, hist>>

Leave(p) ==
    /\ p \in players
    /\ players' = players \ {p}
    /\ last' = Result("leave", "-")
    /\ UNCHANGED <<extVars, cmdVars, tags, dbVars, hist>>

\* The host gives a player a tag or takes it away (what player.hasTag reads).
AddTag(p, tag) ==
    /\ tag \notin tags[p]
    /\ tags' = [tags EXCEPT ![p] = @ \cup {tag}]
    /\ last' = Result("addTag", "-")
    /\ UNCHANGED <<extVars, cmdVars, players, dbVars, hist>>

RemoveTag(p, tag) ==
    /\ tag \in tags[p]
    /\ tags' = [tags EXCEPT ![p] = @ \ {tag}]
    /\ last' = Result("removeTag", "-")
    /\ UNCHANGED <<extVars, cmdVars, players, dbVars, hist>>

-----------------------------------------------------------------------------
(* JsonDB: a JSON document in one dynamic property of the host.  slot.text  *)
(* is the JSON text, written as the mapping it spells out.                   *)

\* JSON.stringify(json): a property whose value is undefined is left out, NaN
\* is written null.
Stringify(json) ==
    [k \in {x \in DOMAIN json : json[x] # "undefined"} |->
        IF json[k] = "NaN" THEN "null" ELSE json[k]]

\* The characters JSON.stringify writes for a value.
ValueText(v) ==
    CASE v = "''" -> "\"\""
      [] v = "'a'" -> "\"a\""
      [] OTHER -> v

RECURSIVE MembersLength(_, _)
\* The length of the members "key":value of text for the keys ks, commas included.
MembersLength(text, ks) ==
    IF ks = {} THEN 0
    ELSE LET k == CHOOSE x \in ks : TRUE
         IN Len(k) + 3 + Len(ValueText(text[k]))
            + (IF ks = {k} THEN 0 ELSE 1 + MembersLength(text, ks \ {k}))

\* The number of characters of the JSON text.
TextLength(text) == 2 + MembersLength(text, DOMAIN text)

\* constructor(name): Object.keys of a string are its indices, one per character.
ConstructedSize == IF slot.set THEN TextLength(slot.text) ELSE 0

Construct(d) ==
    /\ d \notin dbs
    /\ dbs' = dbs \cup {d}
    /\ slot' = IF slot.set THEN slot ELSE [set |-> TRUE, text |-> EmptyObject]
    /\ size' = [size EXCEPT ![d] = ConstructedSize]
    /\ last' = Result("new JsonDB", d)
    /\ UNCHANGED <<extVars, cmdVars, hostVars, refMap, hist>>

\* get(key) on the document text: json[key]
DBGet(text, key) == GetProp(text, key)

\* has(key): Boolean(json[key])
DBHas(text, key) == IF Truthy(GetProp(text, key)) THEN "true" ELSE "false"

\* A set that writes a document holding its own key only.
DBSetTextOwnKey(text, key, value) == Stringify(Put(EmptyObject, key, value))

\* set(key, value): the text written back
DBSetText(text, key, value) == Stringify(Put(text, key, value))

\* set(key, value): this.size afterwards
DBSetSize(n, text, key) == IF ~Truthy(GetProp(text, key)) THEN n + 1 ELSE n

\* remove(key): the text written back
DBRemoveText(text, key) == Stringify(Delete(text, key))

\* remove(key): this.size afterwards
DBRemoveSize(n, text, key) == IF Truthy(GetProp(text, key)) THEN n - 1 ELSE n

DBRead(d, op, key, ret) ==
    /\ d \in dbs
    /\ last' = [Result(op, d) EXCEPT !.input.name = key, !.ret = ret]
    /\ UNCHANGED <<extVars, cmdVars, hostVars, dbVars, hist>>

Get(d, key) == DBRead(d, "get", key, DBGet(slot.text, key))

Has(d, key) == DBRead(d, "has", key, DBHas(slot.text, key))

\* keys(): Object.keys(json), the own properties of the parsed document
DBKeyList(text) == DOMAIN text

\* keys(), the number of keys returned being kept in last.ret
Keys(d) ==
    /\ d \in dbs
    /\ last' = [Result("keys", d) EXCEPT
                  !.ret = IF DBKeyList(slot.text) = {} THEN "[]" ELSE "[...]"]
    /\ UNCHANGED <<extVars, cmdVars, hostVars, dbVars, hist>>

\* The names bound in the module's scope: the imports of line 1 and the
\* module's own top-level declarations.
ModuleBindings ==
    {"world", "system", "Player", "Dimension", "SaplingExtension",
     "DebugScreen", "ConfigBuilder", "Command", "JsonDB", "CheckSaplingAdmin"}

\* forEach(callback, forAwait): the body reads the slot through the name mc;
\* resolving a name that is not bound throws a ReferenceError before anything
\* else runs, and the async function's promise is rejected. Otherwise the
\* callback is applied to every own key of the parsed document and its value,
\* with for await or with a plain for alike.
ForEachResult(text, forAwait) ==
    IF "mc" \notin ModuleBindings
    THEN [threw |-> TRUE, visits |-> {}]
    ELSE [threw |-> FALSE,
          visits |-> {[key |-> k, value |-> text[k]] : k \in DOMAIN text}]

ForEach(d, forAwait) ==
    /\ d \in dbs
    /\ LET r == ForEachResult(slot.text, forAwait) IN
       last' = [Result("forEach", d) EXCEPT
                  !.input = [NoInput EXCEPT
                               !.name = IF forAwait THEN "forAwait" ELSE "for"],
                  !.threw = r.threw, !.visits = r.visits]
    /\ UNCHANGED <<extVars, cmdVars, hostVars, dbVars, hist>>

Set(d, key, value) ==
    /\ d \in dbs
    /\ size[d] < MaxSize
    /\ slot' = [slot EXCEPT !.text = DBSetText(@, key, value)]
    /\ size' = [size EXCEPT ![d] = DBSetSize(@, slot.text, key)]
    /\ refMap' = Put(refMap, key, value)
    /\ last' = [Result("set", d) EXCEPT !.input.name = key, !.input.fn = value]
    /\ UNCHANGED <<extVars, cmdVars, hostVars, dbs, hist>>

Remove(d, key) ==
    /\ d \in dbs
    /\ size[d] > -MaxSize
    /\ slot' = [slot EXCEPT !.text = DBRemoveText(@, key)]
    /\ size' = [size EXCEPT ![d] = DBRemoveSize(@, slot.text, key)]
    /\ refMap' = Delete(refMap, key)
    /\ last' = [Result("remove", d) EXCEPT !.input.name = key]
    /\ UNCHANGED <<extVars, cmdVars, hostVars, dbs, hist>>

Clear(d) ==
    /\ d \in dbs
    /\ slot' = [set |-> TRUE, text |-> EmptyObject]
    /\ refMap' = EmptyObject
    /\ last' = Result("clear", d)
    /\ UNCHANGED <<extVars, cmdVars, hostVars, dbs, size, hist>>

-----------------------------------------------------------------------------
(* The state after the module is loaded and the extensions are constructed *)

NoSlot == [set |-> FALSE, text |-> EmptyObject]

Init ==
    /\ loaded = [e \in Exts |-> FALSE]
    /\ config = [e \in Exts |-> NoConfig]
    /\ protocols = [e \in Exts |-> EmptyObject]
    /\ gamerules = [e \in Exts |-> EmptyObject]
    /\ gamerulesData = [e \in Exts |-> EmptyObject]
    /\ commands = [e \in Exts |-> EmptyObject]
    /\ cmdData = [c \in CmdObjs |-> NewCommandData]
    /\ registry = EmptyObject
    /\ players = {}
    /\ tags = [p \in PlayerNames |-> {}]
    /\ slot = NoSlot
    /\ dbs = {}
    /\ size = [d \in DBs |-> 0]
    /\ refMap = EmptyObject
    /\ hist = <<>>
    /\ last = Result("init", "-")

-----------------------------------------------------------------------------
(* Spec: one extension, as main.js sets it up, and the events it may get *)

SourceTypes == {"Server", "Entity"}

ExampleRules ==
    [k \in {"clientGR", "serverGR", "engineGR"} |->
        IF k = "clientGR" THEN "client"
        ELSE IF k = "serverGR" THEN "server" ELSE "engine"]

RuleInputs == {ExampleRules, [k \in {"serverGR", "bad"} |->
                                 IF k = "bad" THEN "global" ELSE "server"]}

MapInputs == {[k \in {"serverGR"} |-> "true"],
              [k \in {"serverGR", "extra"} |-> "false"]}

Ids == [kind \in {"command", "otherCommand", "gamerules", "longerGamerules",
                  "protocol", "longerProtocol"} |->
    CASE kind = "command" -> "myextension:command.mycommand"
      [] kind = "otherCommand" -> "myextension:command.other"
      [] kind = "gamerules" -> "myextension:gamerules"
      [] kind = "longerGamerules" -> "myextension:gamerules.x"
      [] kind = "protocol" -> "myextension:event_test"
      [] kind = "longerProtocol" -> "myextension:event_test2"]

CoreEvents ==
    [id : {Ids["command"]},
     message : {CommandMessage("steve", ArrayArgs(<<>>)), TextMessage},
     sourceType : SourceTypes]
    \cup [id : {Ids["otherCommand"]},
          message : {CommandMessage("steve", ArrayArgs(<<>>))},
          sourceType : {"Server"}]
    \cup [id : {Ids["gamerules"]},
          message : {MapMessage(m) : m \in MapInputs} \cup {TextMessage},
          sourceType : SourceTypes]
    \cup [id : {Ids["protocol"], Ids["longerProtocol"]},
          message : {TextMessage},
          sourceType : SourceTypes]

Next ==
    \/ \E h \in Handlers \cup {NotAFunction} : SetProtocol("A", "test", h)
    \/ SetCommand("A", "c1")
    \/ SetName("c1", "mycommand")
    \/ SetCallback("c1", "cb1")
    \/ Build("c1")
    \/ Join("steve")
    \/ Leave("steve")
    \/ \E ev \in CoreEvents : Deliver({"A"}, ev)

Spec == Init /\ [][Next]_vars

-----------------------------------------------------------------------------
(* SpecLife: the lifecycle of one extension and the operations around it *)

ConfigInputs == {ConfigBuilder(TRUE), ConfigBuilder(FALSE), PlainObject(FALSE)}

LifeEvents ==
    [id : {Ids["gamerules"]},
     message : {MapMessage([k \in {"serverGR"} |-> "true"])},
     sourceType : SourceTypes]

NextLife ==
    \/ \E cfg \in ConfigInputs : Load("A", cfg)
    \/ Update("A")
    \/ \E h \in {"h1", NotAFunction} : SetProtocol("A", "test", h)
    \/ \E r \in RuleInputs : SetGameRules("A", r)
    \/ SetName("c1", "mycommand")
    \/ SetCommand("A", "c1")
    \/ \E g \in {"serverGR", "nope"} : GetGamerule("A", g, FALSE, "undefined")
    \/ \E ev \in LifeEvents : Deliver({"A"}, ev)

SpecLife == Init /\ [][NextLife]_vars

-----------------------------------------------------------------------------
(* SpecTwo: two extensions, one namespace a prefix of the other, on the same
   channel *)

\* The identifiers addressed to extension e.
IdsOf(e) ==
    [kind \in {"command", "gamerules", "protocol"} |->
       CASE kind = "command" -> extensionNamespace[e] \o ":command.mycommand"
         [] kind = "gamerules" -> extensionNamespace[e] \o ":gamerules"
         [] kind = "protocol" -> ProtocolKey(e, "test")]

TwoEvents ==
    UNION {[id : {IdsOf(e)["command"]},
            message : {CommandMessage("steve", ArrayArgs(<<>>))},
            sourceType : {"Server"}]
           \cup [id : {IdsOf(e)["gamerules"]},
                 message : {MapMessage([k \in {"serverGR"} |-> "true"])},
                 sourceType : {"Server"}]
           \cup [id : {IdsOf(e)["protocol"]},
                 message : {TextMessage},
                 sourceType : {"Server"}] : e \in Exts}

NextTwo ==
    \/ SetProtocol("A", "test", "h1")
    \/ SetProtocol("B", "test", "h2")
    \/ SetName("c1", "mycommand")
    \/ SetCallback("c1", "cb1")
    \/ Build("c1")
    \/ \E e \in Exts : SetCommand(e, "c1")
    \/ Join("steve")
    \/ \E ev \in TwoEvents : Deliver(Exts, ev)

SpecTwo == Init /\ [][NextTwo]_vars

-----------------------------------------------------------------------------
(* SpecDrop: command events for names outside the local command set and for
   senders that are not present *)

DropEvents ==
    [id : {Ids["command"], Ids["otherCommand"],
           "myextension:command.constructor"},
     message : {CommandMessage("steve", ArrayArgs(<<>>)),
                CommandMessage("alex", ArrayArgs(<<>>))},
     sourceType : {"Server"}]

NextDrop ==
    \/ SetName("c1", "mycommand")
    \/ SetCallback("c1", "cb1")
    \/ Build("c1")
    \/ SetCommand("A", "c1")
    \/ SetName("c2", InheritedName)
    \/ SetCallback("c2", "cb2")
    \/ Build("c2")
    \/ Join("steve")
    \/ Leave("steve")
    \/ \E ev \in DropEvents : Deliver({"A"}, ev)

SpecDrop == Init /\ [][NextDrop]_vars

-----------------------------------------------------------------------------
(* SpecStores: two JsonDB instances on one store name, each call one step *)

StoreKeys == {"k1", "k2"}
StoreValues == {"1", "NaN", "undefined"}

NextStores ==
    \/ \E d \in DBs : Construct(d)
    \/ \E d \in DBs, k \in StoreKeys, v \in StoreValues : Set(d, k, v)
    \/ \E d \in DBs, k \in StoreKeys : Remove(d, k)
    \/ \E d \in DBs : Clear(d)
    \/ \E d \in DBs : Keys(d)

SpecStores == Init /\ [][NextStores]_vars

-----------------------------------------------------------------------------
(* SpecRead: reading gamerules, server-side and per player *)

ReadNames == {"serverGR", "clientGR", "nope", "constructor"}

ReadEvents ==
    [id : {Ids["gamerules"]},
     message : {MapMessage([k \in {"serverGR"} |-> "true"]),
                MapMessage([k \in {"serverGR"} |-> "false"])},
     sourceType : {"Server"}]

NextRead ==
    \/ Load("A", ConfigBuilder(FALSE))
    \/ SetGameRules("A", ExampleRules)
    \/ \E t \in {"client:clientGR", "client:constructor"} : AddTag("steve", t)
    \/ RemoveTag("steve", "client:clientGR")
    \/ \E g \in ReadNames : GetGamerule("A", g, FALSE, "undefined")
    \/ \E g \in ReadNames, p \in {"steve", "undefined"} :
          GetGamerule("A", g, TRUE, p)
    \/ \E ev \in ReadEvents : Deliver({"A"}, ev)

SpecRead == Init /\ [][NextRead]_vars

-----------------------------------------------------------------------------
(* SpecRules: gamerule pushes, every delivered event kept in hist *)

PushInputs == {[k \in {"serverGR"} |-> "true"],
               [k \in {"serverGR", "engineGR"} |-> "false"],
               [k \in {"engineGR"} |-> "true"]}

RulesEvents ==
    [id : {Ids["gamerules"]},
     message : {MapMessage(m) : m \in PushInputs} \cup {TextMessage},
     sourceType : {"Server"}]
    \cup [id : {Ids["gamerules"]},
          message : {MapMessage([k \in {"serverGR"} |-> "true"])},
          sourceType : {"Entity"}]
    \cup [id : {Ids["longerGamerules"]},
          message : {MapMessage([k \in {"serverGR"} |-> "true"])},
          sourceType : {"Server"}]

NextRules ==
    \/ Load("A", ConfigBuilder(FALSE))
    \/ SetGameRules("A", ExampleRules)
    \/ \E g \in {"serverGR", "engineGR"} : GetGamerule("A", g, FALSE, "undefined")
    \/ \E ev \in RulesEvents : DeliverRecorded({"A"}, ev)

SpecRules == Init /\ [][NextRules]_vars

-----------------------------------------------------------------------------
(* SpecCmd: two Command builders, the registry, and command invocations *)

ArgArrays == UNION {[1..n -> {"x"}] : n \in 0..MaxArgs}

CmdEvents ==
    [id : {Ids["command"]},
     message : {CommandMessage("steve", ArrayArgs(a)) : a \in ArgArrays}
               \cup {CommandMessage("steve", ObjectArgs),
                     CommandMessage("alex", ArrayArgs(<<>>))},
     sourceType : {"Server"}]

NextCmd ==
    \/ \E c \in CmdObjs : SetName(c, "mycommand")
    \/ SetCallback("c1", "cb1")
    \/ SetCallback("c2", "cb2")
    \/ \E c \in CmdObjs : AddArgument(c, "string", "message")
    \/ \E c \in CmdObjs : Build(c)
    \/ \E c \in CmdObjs : SetCommand("A", c)
    \/ Join("steve")
    \/ \E ev \in CmdEvents : Deliver({"A"}, ev)

SpecCmd == Init /\ [][NextCmd]_vars

-----------------------------------------------------------------------------
(* SpecDB: one JsonDB instance *)

NextDB ==
    \/ Construct("d1")
    \/ \E k \in DBKeys, v \in DBValues : Set("d1", k, v)
    \/ \E k \in DBKeys : Get("d1", k)
    \/ \E k \in DBKeys : Has("d1", k)
    \/ \E k \in DBKeys : Remove("d1", k)
    \/ Clear("d1")
    \/ Keys("d1")
    \/ \E forAwait \in BOOLEAN : ForEach("d1", forAwait)

SpecDB == Init /\ [][NextDB]_vars

-----------------------------------------------------------------------------
(* Properties *)

NamespacedTables == <<protocols, gamerules, commands>>

\* C1: an event whose sourceType is not "Server" invokes no command callback,
\* sends no syntax-error reply and leaves gamerulesData unchanged, whatever
\* its identifier and payload.
C1_NonServerIgnored ==
    [][(last'.op = "event" /\ last'.event.sourceType # "Server")
        => /\ last'.cmdCalls = <<>>
           /\ last'.replies = <<>>
           /\ gamerulesData' = gamerulesData]_vars

\* A non-Server command event in the namespace arrived while the command was
\* set up and its sender present, so that the command path would have called
\* the callback.
C1_Witness ==
    /\ last.op = "event"
    /\ last.event.sourceType = "Entity"
    /\ last.event.id = "myextension:command.mycommand"
    /\ HandleCommand("A", "mycommand", last.event.message, "steve").cmdCalls # <<>>

\* C2: for a command registered on the extension whose registry entry is the
\* same descriptor, and a present sender, a Server command event with an args
\* array of another length than the declared args sends exactly one syntax
\* error to the sender and invokes no callback; with an args array of the
\* declared length (the descriptor having a callback) the callback is invoked
\* exactly once with (sender, payload args) and nothing is sent.
C2_ArgCount ==
    (last.op = "event" /\ last.event.sourceType = "Server")
    => \A n \in DOMAIN commands["A"] :
         LET c == commands["A"][n]
             m == last.event.message
         IN (/\ last.event.id = "myextension:command." \o n
             /\ GetProp(registry, "#" \o cmdData[c].name) = c
             /\ m.json = "object"
             /\ m.senderName \in players
             /\ m.args.kind = "array")
            => IF Len(m.args.items) # Len(cmdData[c].args)
               THEN /\ last.replies = <<[to |-> m.senderName,
                                         text |-> "Syntax error"]>>
                    /\ last.cmdCalls = <<>>
               ELSE cmdData[c].callback # "undefined"
                    => /\ last.cmdCalls = <<[via |-> "A",
                                             fn |-> cmdData[c].callback,
                                             sender |-> m.senderName,
                                             args |-> m.args]>>
                       /\ last.replies = <<>>

\* A command event with the wrong number of arguments was answered.
C2_Witness ==
    /\ last.op = "event"
    /\ last.replies # <<>>
    /\ last.event.message.args.kind = "array"
    /\ cmdData[commands["A"]["mycommand"]].callback # "undefined"

IsPush(ev) ==
    /\ ev.sourceType = "Server"
    /\ ev.id = "myextension:gamerules"
    /\ ev.message.json = "object"

\* A Server event that is not `<namespace>:gamerules` but starts with it.
IsLongerPush(ev) ==
    /\ ev.sourceType = "Server"
    /\ ev.id # "myextension:gamerules"
    /\ StartsWith(ev.id, "myextension:gamerules")

RECURSIVE LatestValue(_, _)
\* The value of k in the last mapping of pushes that has k.
LatestValue(pushes, k) ==
    IF pushes = <<>> THEN "undefined"
    ELSE LET m == pushes[Len(pushes)].message.map
         IN IF k \in DOMAIN m THEN m[k]
            ELSE LatestValue(SubSeq(pushes, 1, Len(pushes) - 1), k)

\* C3: after the Server events `<namespace>:gamerules` of hist, every key holds
\* the value of the most recent pushed mapping that has it (no key is removed,
\* no other key changed), and getGamerule(k, false) on the loaded extension
\* returns that value for every declared gamerule k.
C3_LatestPushWins ==
    (\A i \in 1..Len(hist) : ~IsLongerPush(hist[i]))
    => LET pushes == SelectSeq(hist, IsPush) IN
       /\ \A k \in {"serverGR", "engineGR", "clientGR"} :
            GetProp(gamerulesData["A"], k) = LatestValue(pushes, k)
       /\ \A k \in DOMAIN gamerules["A"] :
            loaded["A"]
            => GetGameruleResult("A", k, FALSE, "undefined")
               = [threw |-> FALSE, ret |-> LatestValue(pushes, k)]
       /\ (last.op = "getGamerule" /\ ~last.threw)
            => last.ret = LatestValue(pushes, last.input.name)

\* serverGR was pushed, a later push did not carry it, and getGamerule
\* returned the value of the earlier push.
C3_Witness ==
    /\ Len(hist) = 2
    /\ IsPush(hist[1]) /\ IsPush(hist[2])
    /\ "serverGR" \in DOMAIN hist[1].message.map
    /\ "serverGR" \notin DOMAIN hist[2].message.map
    /\ last.op = "getGamerule"
    /\ last.input.name = "serverGR"
    /\ last.ret = "true"

\* C4: load() on a loaded extension fails, update() on an extension that was
\* never loaded fails, load with a config that is no ConfigBuilder fails; a
\* failing load or update leaves loaded and config unchanged and emits no
\* load announcement.
C4_LoadUpdateFail ==
    [][(last'.op \in {"load", "update"} /\ last'.ext = "A")
        => /\ (last'.op = "load" /\ loaded["A"]) => last'.threw
           /\ (last'.op = "load" /\ last'.input.fn # "ConfigBuilder") => last'.threw
           /\ (last'.op = "update" /\ ~loaded["A"]) => last'.threw
           /\ last'.threw => /\ loaded' = loaded
                             /\ config' = config
                             /\ last'.announces = <<>>]_vars

\* A second load, with a valid ConfigBuilder, failed.
C4_Witness ==
    /\ last.op = "load"
    /\ last.threw
    /\ last.input.fn = "ConfigBuilder"
    /\ loaded["A"]

\* C5, as stated: on an extension that has not been loaded, setProtocol,
\* setGameRules and setCommand change none of the three tables.
C5_RequireLoaded ==
    [][(~loaded["A"] /\ last'.ext = "A"
        /\ last'.op \in {"setProtocol", "setGameRules", "setCommand"})
        => NamespacedTables' = NamespacedTables]_vars

\* C5, amended: only update and getGamerule require loaded; setProtocol,
\* setGameRules and setCommand do not look at it and take effect on an
\* extension that has not been loaded as on a loaded one.
C5_OnlyReadsRequireLoaded ==
    [][last'.ext = "A"
        => /\ (last'.op \in {"update", "getGamerule"} /\ ~loaded["A"])
                => last'.threw /\ NamespacedTables' = NamespacedTables
           /\ last'.op = "setCommand"
                => /\ ~last'.threw
                   /\ GetProp(commands'["A"], cmdData[last'.input.name].name)
                        = last'.input.name
           /\ last'.op = "setGameRules"
                => /\ ~last'.threw
                   /\ \A k \in DOMAIN last'.input.map :
                        IF last'.input.map[k] \in {"client", "server", "engine"}
                        THEN GetProp(gamerules'["A"], k) = last'.input.map[k]
                        ELSE GetProp(gamerules'["A"], k) = GetProp(gamerules["A"], k)
           /\ (/\ last'.op = "setProtocol"
               /\ last'.input.fn \in Handlers
               /\ ("myextension:event_" \o last'.input.name)
                     \notin DOMAIN protocols["A"])
                => /\ ~last'.threw
                   /\ GetProp(protocols'["A"],
                              "myextension:event_" \o last'.input.name)
                        = last'.input.fn]_vars

\* setCommand stored a command on an extension that has not been loaded.
C5_Witness ==
    /\ ~loaded["A"]
    /\ last.op = "setCommand"
    /\ ~last.threw
    /\ "mycommand" \in DOMAIN commands["A"]

\* C6: a successful setProtocol(i, h) stores h under `<namespace>:event_<i>`;
\* an event whose id equals a registered key invokes that key's handler
\* exactly once with the event, whatever its sourceType; an event whose id
\* equals no registered key invokes no custom handler.
C6_ExactMatch ==
    /\ DOMAIN protocols["A"] \subseteq {"myextension:event_" \o i : i \in Identifiers}
    /\ (last.op = "setProtocol" /\ ~last.threw)
         => GetProp(protocols["A"], "myextension:event_" \o last.input.name)
              = last.input.fn
    /\ last.op = "event"
         => IF last.event.id \in DOMAIN protocols["A"]
            THEN last.protoCalls = <<[via |-> "A",
                                      fn |-> protocols["A"][last.event.id],
                                      event |-> last.event]>>
            ELSE last.protoCalls = <<>>

\* A registered handler was invoked by an event that did not come from the
\* server.
C6_Witness ==
    /\ last.op = "event"
    /\ last.event.sourceType = "Entity"
    /\ last.event.id = "myextension:event_test"
    /\ Len(last.protoCalls) = 1

\* C7: setProtocol with an identifier that is already registered, or with a
\* callback that is not a function, fails and leaves the protocol table
\* unchanged; a registered key keeps its first handler, and a matching event
\* invokes that handler.
C7_DuplicateRejected ==
    [][/\ (/\ last'.op = "setProtocol"
           /\ \/ ("myextension:event_" \o last'.input.name) \in DOMAIN protocols["A"]
              \/ last'.input.fn \notin Handlers)
            => last'.threw /\ protocols' = protocols
       /\ \A k \in DOMAIN protocols["A"] :
            /\ GetProp(protocols'["A"], k) = protocols["A"][k]
            /\ (last'.op = "event" /\ last'.event.id = k)
                 => /\ Len(last'.protoCalls) = 1
                    /\ last'.protoCalls[1].fn = protocols["A"][k]]_vars

\* A second registration of the identifier, with another handler, was rejected.
C7_Witness ==
    /\ last.op = "setProtocol"
    /\ last.threw
    /\ last.input.fn \in Handlers
    /\ "myextension:event_test" \in DOMAIN protocols["A"]
    /\ protocols["A"]["myextension:event_test"] # last.input.fn

C9_RegisterLookup ==
    [][/\ last'.op = "build"
            => LET c == last'.input.name IN
               /\ GetProp(registry', "#" \o cmdData[c].name) = c
               /\ GetProp(registry', "./" \o cmdData[c].name) = c
               /\ \A k \in DOMAIN registry :
                    k \notin {"#" \o cmdData[c].name, "./" \o cmdData[c].name}
                    => GetProp(registry', k) = registry[k]
       /\ last'.op # "build" => registry' = registry]_vars

\* Two descriptors of different names are in the registry, the second build
\* having kept the first one's entries.
C9_Witness ==
    /\ last.op = "build"
    /\ GetProp(registry, "#mycommand") \in CmdObjs
    /\ GetProp(registry, "./mycommand") = GetProp(registry, "#mycommand")
    /\ GetProp(registry, "#") \in CmdObjs \ {GetProp(registry, "#mycommand")}
    /\ cmdData[last.input.name].name = ""

\* C10, as stated: on a constructed store, set(k, v) then get(k) returns v,
\* remove(k) then has(k) returns false, and set and remove leave the value of
\* every other key unchanged.
C10_RoundTrip ==
    slot.set
    => \A k \in DBKeys :
         /\ \A v \in DBValues : DBGet(DBSetText(slot.text, k, v), k) = v
         /\ DBHas(DBRemoveText(slot.text, k), k) = "false"
         /\ \A k2 \in DBKeys \ {k} :
              /\ DBGet(DBRemoveText(slot.text, k), k2) = DBGet(slot.text, k2)
              /\ \A v \in DBValues :
                   DBGet(DBSetText(slot.text, k, v), k2) = DBGet(slot.text, k2)

\* C11, as stated: on a store constructed on an empty document, the cached
\* size is N after N set calls on N distinct keys that were absent (here N =
\* 0, 1 and 2, whatever the values); and after clear() the document has no
\* keys while the cached size is what it was.
C11_SizeCountsSets ==
    /\ (last.op = "new JsonDB" /\ slot.text = EmptyObject)
         => LET n0 == size[last.ext] IN
            /\ n0 = 0
            /\ \A k \in DBKeys, v \in DBValues :
                 /\ DBSetSize(n0, slot.text, k) = 1
                 /\ \A k2 \in DBKeys \ {k} :
                      DBSetSize(DBSetSize(n0, slot.text, k),
                                DBSetText(slot.text, k, v), k2) = 2
    /\ last.op = "clear" => DBKeyList(slot.text) = {}
    /\ last.op = "keys" => (last.ret = "[]" <=> DOMAIN slot.text = {})

\* C12, as stated: forEach(callback, mode) invokes callback exactly once for
\* each key of the document, with that key and its value, in the sequential
\* and in the concurrent mode, and completes without error.
C12_ForEachVisitsAll ==
    last.op = "forEach"
      => /\ ~last.threw
         /\ last.visits = {[key |-> k, value |-> slot.text[k]] :
                             k \in DOMAIN slot.text}

\* C13, as stated: getGamerule(name, isClient, actor) fails when the extension
\* is not loaded and fails when name was not declared through setGameRules; a
\* client read fails unless actor is a valid actor and otherwise returns
\* whether the actor carries the tag "client:" + name; a server or engine read
\* returns the last value merged for name; and no call changes the
\* extension's state.
C13_GetGamerule ==
    [][last'.op = "getGamerule" =>
         LET e == last'.ext
             name == last'.input.name
             actor == last'.input.fn
         IN  /\ UNCHANGED <<extVars, cmdVars, hostVars, dbVars>>
             /\ ~loaded[e] => last'.threw
             /\ name \notin DOMAIN gamerules[e] => last'.threw
             /\ (loaded[e] /\ name \in DOMAIN gamerules[e])
                  => IF actor = ""
                     THEN /\ ~last'.threw
                          /\ last'.ret = IF name \in DOMAIN gamerulesData[e]
                                         THEN gamerulesData[e][name]
                                         ELSE "undefined"
                     ELSE IF actor \notin PlayerNames
                     THEN last'.threw
                     ELSE /\ ~last'.threw
                          /\ last'.ret = "true"
                               <=> ("client:" \o name) \in tags[actor]]_vars

\* An event addressed to extension a: <ns>:command.<x>, <ns>:gamerules or
\* <ns>:event_<i> with a's namespace.
AddressedTo(a, ev) ==
    \/ StartsWith(ev.id, extensionNamespace[a] \o ":command.")
    \/ ev.id = extensionNamespace[a] \o ":gamerules"
    \/ StartsWith(ev.id, extensionNamespace[a] \o ":event_")

\* C14: with two extensions of different namespaces on the same channel, one
\* namespace a prefix of the other, an event addressed to one of them never
\* changes the other's gamerulesData, never invokes a command callback
\* through the other's dispatch and never invokes one of the other's
\* protocol handlers.
C14_Isolation ==
    [][last'.op = "event" =>
         \A a \in Exts : \A b \in Exts \ {a} :
            AddressedTo(a, last'.event)
              => /\ gamerulesData'[b] = gamerulesData[b]
                 /\ \A i \in DOMAIN last'.cmdCalls : last'.cmdCalls[i].via # b
                 /\ \A i \in DOMAIN last'.protoCalls :
                      last'.protoCalls[i].via # b]_vars

\* A push addressed to "myextension" has passed the first filter of "my",
\* which has a protocol and a command of its own, and was merged by
\* "myextension" alone.
C14_Witness ==
    /\ last.op = "event"
    /\ last.event.id = "myextension:gamerules"
    /\ Consumed("B", last.event)
    /\ "serverGR" \in DOMAIN gamerulesData["A"]
    /\ "serverGR" \notin DOMAIN gamerulesData["B"]
    /\ ProtocolKey("B", "test") \in DOMAIN protocols["B"]
    /\ "mycommand" \in DOMAIN commands["B"]

\* C15: loaded is false when the extension is constructed, becomes true only
\* through a load(config) that does not throw, and once true stays true; every
\* load and every update that does not throw emits exactly one load
\* announcement, which carries the extension's description of itself, and no
\* other operation and no inbound event emits one.
C15_LoadedMonotone ==
    /\ \A e \in Exts : ~loaded[e]
    /\ [][/\ \A e \in Exts :
              /\ loaded[e] => loaded'[e]
              /\ (~loaded[e] /\ loaded'[e])
                   => (last'.op = "load" /\ last'.ext = e /\ ~last'.threw)
          /\ IF last'.op \in {"load", "update"} /\ ~last'.threw
             THEN /\ loaded'[last'.ext]
                  /\ Len(last'.announces) = 1
                  /\ LET a == last'.announces[1]
                         e == last'.ext
                     IN /\ a.extensionId = e
                        /\ a.extensionNamespace = extensionNamespace[e]
                        /\ a.gamerules = gamerules'[e]
                        /\ a.config = config'[e]
                        /\ DOMAIN a.commands = DOMAIN commands'[e]
             ELSE last'.announces = <<>>]_vars

\* An update of a loaded extension that has gamerules and a command has
\* announced it once.
C15_Witness ==
    /\ last.op = "update"
    /\ ~last.threw
    /\ loaded["A"]
    /\ Len(last.announces) = 1
    /\ DOMAIN last.announces[1].commands # {}
    /\ DOMAIN last.announces[1].gamerules # {}

\* C16, as stated: a Server command event <namespace>:command.<x> whose name
\* x is not in the extension's local command set, whatever the registry
\* holds, or whose senderName is the name of no present player, invokes no
\* callback, sends no syntax-error message and leaves commands, gamerulesData
\* and the protocol table as they were.
C16_SilentDrop ==
    [][(/\ last'.op = "event"
        /\ last'.event.sourceType = "Server"
        /\ IsCommandEvent("A", last'.event)
        /\ \/ StripPrefix(last'.event.id, "myextension:command.")
                \notin DOMAIN commands["A"]
           \/ last'.event.message.senderName \notin players)
         => /\ last'.cmdCalls = <<>>
            /\ last'.replies = <<>>
            /\ UNCHANGED <<commands, gamerulesData, protocols>>]_vars

\* C17: a build of a descriptor whose name is already registered for another
\* descriptor raises no error and leaves the built descriptor alone under
\* both aliases; and from then on a Server command event for that name, on an
\* extension whose local set holds a descriptor of that name (the earlier one),
\* from a present sender, checks the argument count against the registered
\* descriptor's args and invokes the registered descriptor's callback, not
\* the local one's.
C17_SecondBuildWins ==
    [][/\ last'.op = "build"
            => LET c == last'.input.name
                   n == cmdData[c].name
               IN (GetProp(registry, "#" \o n) \in CmdObjs \ {c})
                    => /\ ~last'.threw
                       /\ GetProp(registry', "#" \o n) = c
                       /\ GetProp(registry', "./" \o n) = c
       /\ (last'.op = "event" /\ last'.event.sourceType = "Server")
            => \A n \in DOMAIN commands["A"] :
                 LET c == commands["A"][n]
                     d == GetProp(registry, "#" \o n)
                     m == last'.event.message
                 IN (/\ last'.event.id = "myextension:command." \o n
                     /\ cmdData[c].name = n
                     /\ d \in CmdObjs \ {c}
                     /\ m.json = "object"
                     /\ m.senderName \in players
                     /\ m.args.kind = "array")
                    => IF Len(m.args.items) # Len(cmdData[d].args)
                       THEN /\ last'.cmdCalls = <<>>
                            /\ last'.replies = <<[to |-> m.senderName,
                                                  text |-> "Syntax error"]>>
                       ELSE cmdData[d].callback # "undefined"
                            => /\ Len(last'.cmdCalls) = 1
                               /\ last'.cmdCalls[1].fn = cmdData[d].callback
                               /\ last'.replies = <<>>]_vars

\* The extension holds the first descriptor, which declares one argument and
\* has callback cb1; the registry holds the second, built later with no
\* argument; an event with no argument has run cb2.
C17_Witness ==
    /\ last.op = "event"
    /\ "mycommand" \in DOMAIN commands["A"]
    /\ commands["A"]["mycommand"] = "c1"
    /\ cmdData["c1"].name = "mycommand"
    /\ cmdData["c1"].callback = "cb1"
    /\ Len(cmdData["c1"].args) = 1
    /\ GetProp(registry, "#mycommand") = "c2"
    /\ GetProp(registry, "./mycommand") = "c2"
    /\ Len(last.cmdCalls) = 1
    /\ last.cmdCalls[1].fn = "cb2"
    /\ last.event.message.args.items = <<>>

\* C18, as stated: a published descriptor is immutable, so in every reachable
\* state the descriptor the registry holds under "#n" has name n (and the one
\* under "./n" too).
C18_PublishedImmutable ==
    \A k \in DOMAIN registry :
       k \in {RegistryKey(cmdData[registry[k]].name),
              PrefixKey(cmdData[registry[k]].name)}

\* C19: each call being one step, after any interleaving of set, remove and
\* clear calls made through several instances on one store name, the
\* persisted document is the JSON text of the map obtained by applying the
\* same calls in the same order to a single map: no call's update is lost.
C19_NoLostUpdate == slot.set => slot.text = Stringify(refMap)

\* Both instances exist, the first has added a key, the second has just
\* removed k1, and k2, set before, is still in the document.
C19_Witness ==
    /\ dbs = DBs
    /\ size["d1"] = 1
    /\ last.op = "remove"
    /\ last.ext = "d2"
    /\ last.input.name = "k1"
    /\ DOMAIN slot.text = {"k2"}
    /\ DOMAIN refMap = {"k2"}

\* C20, as stated: right after a JsonDB is constructed on a store name, its
\* cached size is the number of keys of the document persisted under that
\* name: 0 for an absent slot or the empty document, K for a document of K
\* keys.
C20_ConstructedSize ==
    last.op = "new JsonDB" => size[last.ext] = Cardinality(DOMAIN slot.text)

====
